---- MODULE Spec2Model ----
(***************************************************************************)
(* Soil-moisture publisher (src/main/main.c): the task adc_mqtt_task waits *)
(* on an event group for Wi-Fi and MQTT connectivity, polls the local      *)
(* wall clock and, at 05:00, 10:00 and 14:00, reads the ADC, calibrates    *)
(* the sample and publishes it, guarded by one "sent" flag per window that *)
(* is cleared when the polled time is 00:00.  The Wi-Fi and MQTT event     *)
(* handlers set and clear the event-group bits concurrently with the task. *)
(***************************************************************************)
EXTENDS Integers, Sequences, FiniteSets, TLC

(***************************************************************************)
(* Bounds of the model.                                                    *)
(***************************************************************************)
\* Calendar days are numbered 0..MaxDay.
MaxDay == 2
\* Publish attempts are counted up to CountCap ("more than one" is CountCap).
CountCap == 2

\* Raw samples range RawExcess beyond both ends of the device range, and
\* include the two samples FarRaw away from zero.
RawExcess == 300
FarRaw == 1000000

(***************************************************************************)
(* Program constants.                                                      *)
(***************************************************************************)
WIFI_CONNECTED_BIT == 1
MQTT_CONNECTED_BIT == 2
\* tm_year is years since 1900; 2023 - 1900 is the first year taken as valid.
MinValidTmYear == 2023 - 1900
\* tm_year of a clock that was never set (1970).
EpochTmYear == 1970 - 1900

\* Largest sample of the 12 bit ADC (ADC_WIDTH_BIT_12).
AdcMax == 2^12 - 1

\* The three windows, in the order of the disjuncts of the condition.
Windows == 1..3
WindowHour == <<5, 10, 14>>

\* The times of day the model's clock passes through, in increasing order:
\* midnight, the three window minutes, and a minute next to midnight and to
\* the first window.
TimePoints == << <<0, 0>>, <<0, 1>>, <<5, 0>>, <<5, 1>>, <<10, 0>>, <<14, 0>> >>
Days == 0..MaxDay
TmYears == {EpochTmYear, MinValidTmYear}

\* Value of a local that is out of scope or not yet assigned.
Unset == -1
\* Raw samples adc1_get_raw can return (12 bit), and -1, its error value.
RawSamples == {-1, 500, 3198, 4095}

\* Integer samples in and beyond the device range: adc1_get_raw returns an int.
AnyRaw == (-RawExcess .. AdcMax + RawExcess) \cup {-FarRaw, FarRaw}

VARIABLES
    wifi_event_group,   \* the set of bits set in the event group
    pc,                 \* position of adc_mqtt_task in its loop
    current_hour,       \* locals of one iteration
    current_minute,
    sent_morning,       \* the three sent flags
    sent_afternoon,
    sent_evening,
    value,              \* the raw sample read from the ADC, or Unset
    payload,            \* hundredths of a percent formatted into payload[], or Unset
    clock_day,          \* the system clock's local time: calendar day,
    clock_tod,          \*   time of day (index into TimePoints),
    tm_year,            \*   and year since 1900
    \* History variables (observations, not program state)
    wait_bits,          \* the group as xEventGroupWaitBits returned it ({}: not yet)
    matched,            \* disjunct of the window condition that held (0: none)
    iter_publishes,     \* publish calls made by the current iteration
    publish_result,     \* outcome of the publish call of this iteration
    fired,              \* fired[w]: publish calls for w since the last reset / start
    steady,             \* the valid clock was never set to another time
    \* Per calendar day, kept while the clock is steady (a day that the clock
    \* can enter twice has no count):
    today,              \* today[w]: publish calls for window w on the current day
    due_polled,         \* due_polled[w]: on the current day, w's minute was
                        \*   polled while its sent flag was false
    last_poll_day,      \* calendar day of the previous valid poll, or Unset
    restarted           \* the process was restarted at least once

vars == <<wifi_event_group, pc, current_hour, current_minute, sent_morning,
          sent_afternoon, sent_evening, value, payload, clock_day, clock_tod, tm_year,
          wait_bits, matched, iter_publishes, publish_result, today, due_polled, fired,
          last_poll_day, steady, restarted>>

sentVars == <<sent_morning, sent_afternoon, sent_evening>>
localVars == <<current_hour, current_minute, value, payload>>
clockVars == <<clock_day, clock_tod, tm_year>>
iterVars == <<wait_bits, matched, iter_publishes, publish_result>>
dayVars == <<today, due_polled>>
runVars == <<steady, restarted>>

Bump(n) == IF n < CountCap THEN n + 1 ELSE n
None == [w \in Windows |-> 0]
Nowhere == [w \in Windows |-> FALSE]

Sent(w) == CASE w = 1 -> sent_morning
             [] w = 2 -> sent_afternoon
             [] w = 3 -> sent_evening

(***************************************************************************)
(* The event group (FreeRTOS), as the calls of main.c use it.              *)
(***************************************************************************)
\* Variant: setting a bit that is set clears it.
xEventGroupSetBits_Toggle(group, bits) == (group \ bits) \cup (bits \ group)

xEventGroupSetBits(group, bits) == group \cup bits
xEventGroupClearBits(group, bits) == group \ bits
\* Variant: the wait returns as soon as any of the bits is set.
WaitCondition_Any(group, bitsToWaitFor, waitForAllBits) ==
    (bitsToWaitFor \cap group) # {}

\* Variant: the wait is for the Wi-Fi bit alone.
WaitCondition_WifiOnly(group, bitsToWaitFor, waitForAllBits) ==
    WIFI_CONNECTED_BIT \in group

\* Variant: the wait also needs a bit that nothing sets (BIT2).
WaitCondition_ExtraBit(group, bitsToWaitFor, waitForAllBits) ==
    (bitsToWaitFor \cup {4}) \subseteq group

\* The unblock condition of xEventGroupWaitBits.
WaitCondition(group, bitsToWaitFor, waitForAllBits) ==
    IF waitForAllBits THEN bitsToWaitFor \subseteq group
                      ELSE (bitsToWaitFor \cap group) # {}
\* The bits left in the group when xEventGroupWaitBits returns.
WaitExit(group, bitsToWaitFor, clearOnExit) ==
    IF clearOnExit THEN group \ bitsToWaitFor ELSE group

(***************************************************************************)
(* get_current_time: FALSE when the year is before 2023.                   *)
(***************************************************************************)
get_current_time(year) == ~(year < MinValidTmYear)

(***************************************************************************)
(* Calibration and formatting: 100 - (value - 2300.0) * 100.0 / 1795.0,    *)
(* clamped to [0, 100], printed with "%.2f": the result in hundredths of a *)
(* percent.  The exact value is (409500 - 100 * value) / 1795.             *)
(***************************************************************************)
RoundDiv(n, d) == (2 * n + d) \div (2 * d)
\* Variant: the expression in int arithmetic (2300 and 100 for 2300.0 and 100.0).
Calibrate_IntDivision(raw) ==
    LET d == raw - 2300
        p == 100 - ((d * 100) \div 1795)
    IN  IF d <= 0 THEN 10000
        ELSE IF p < 0 THEN 0
        ELSE 100 * p

\* Variant: the lower clamp (percent_value < 0) is missing.
Calibrate_NoLowerClamp(raw) ==
    LET num == 409500 - 100 * raw
    IN  IF num > 100 * 1795 THEN 10000
        ELSE IF num < 0 THEN 100 * (num \div 1795)
        ELSE RoundDiv(100 * num, 1795)

Calibrate(raw) ==
    LET num == 409500 - 100 * raw
    IN  IF num > 100 * 1795 THEN 10000
        ELSE IF num < 0 THEN 0
        ELSE RoundDiv(100 * num, 1795)

(***************************************************************************)
(* Initial state: app_main has started the task; nothing is connected.     *)
(***************************************************************************)
Init ==
    /\ wifi_event_group = {}
    /\ pc = "wait"
    /\ current_hour = Unset
    /\ current_minute = Unset
    /\ sent_morning = FALSE
    /\ sent_afternoon = FALSE
    /\ sent_evening = FALSE
    /\ value = Unset
    /\ payload = Unset
    /\ wait_bits = {}
    /\ clock_day = 0
    /\ clock_tod \in 1..Len(TimePoints)
    /\ tm_year \in TmYears
    /\ matched = 0
    /\ iter_publishes = 0
    /\ publish_result = "none"
    /\ today = None
    /\ due_polled = Nowhere
    /\ fired = None
    /\ last_poll_day = Unset
    /\ steady = TRUE
    /\ restarted = FALSE

(***************************************************************************)
(* Event handlers.                                                         *)
(***************************************************************************)
WifiEvents == { <<"WIFI_EVENT", "WIFI_EVENT_STA_START">>,
                <<"WIFI_EVENT", "WIFI_EVENT_STA_DISCONNECTED">>,
                <<"WIFI_EVENT", "WIFI_EVENT_STA_CONNECTED">>,
                <<"IP_EVENT", "IP_EVENT_STA_GOT_IP">> }

\* Variant: a station disconnect clears every bit of the group.
wifi_event_handler_ClearsAll(event_base, event_id) ==
    /\ IF event_base = "WIFI_EVENT" /\ event_id = "WIFI_EVENT_STA_DISCONNECTED"
       THEN wifi_event_group' = {}
       ELSE IF event_base = "IP_EVENT" /\ event_id = "IP_EVENT_STA_GOT_IP"
       THEN wifi_event_group' = xEventGroupSetBits(wifi_event_group, {WIFI_CONNECTED_BIT})
       ELSE UNCHANGED wifi_event_group
    /\ UNCHANGED <<pc, sentVars, localVars, clockVars, iterVars, dayVars, fired,
                   last_poll_day, runVars>>

wifi_event_handler(event_base, event_id) ==
    /\ IF event_base = "WIFI_EVENT" /\ event_id = "WIFI_EVENT_STA_START"
       THEN UNCHANGED wifi_event_group
       ELSE IF event_base = "WIFI_EVENT" /\ event_id = "WIFI_EVENT_STA_DISCONNECTED"
       THEN wifi_event_group' = xEventGroupClearBits(wifi_event_group, {WIFI_CONNECTED_BIT})
       ELSE IF event_base = "IP_EVENT" /\ event_id = "IP_EVENT_STA_GOT_IP"
       THEN wifi_event_group' = xEventGroupSetBits(wifi_event_group, {WIFI_CONNECTED_BIT})
       ELSE UNCHANGED wifi_event_group
    /\ UNCHANGED <<pc, sentVars, localVars, clockVars, iterVars, dayVars, fired,
                   last_poll_day, runVars>>

MqttEvents == {"MQTT_EVENT_CONNECTED", "MQTT_EVENT_DISCONNECTED",
               "MQTT_EVENT_PUBLISHED", "MQTT_EVENT_ERROR"}

mqtt_event_handler_cb(event_id) ==
    /\ CASE event_id = "MQTT_EVENT_CONNECTED" ->
              wifi_event_group' = xEventGroupSetBits(wifi_event_group, {MQTT_CONNECTED_BIT})
         [] event_id = "MQTT_EVENT_DISCONNECTED" ->
              wifi_event_group' = xEventGroupClearBits(wifi_event_group, {MQTT_CONNECTED_BIT})
         [] event_id = "MQTT_EVENT_PUBLISHED" -> UNCHANGED wifi_event_group
         [] OTHER -> UNCHANGED wifi_event_group
    /\ UNCHANGED <<pc, sentVars, localVars, clockVars, iterVars, dayVars, fired,
                   last_poll_day, runVars>>

WifiEvent == \E ev \in WifiEvents : wifi_event_handler(ev[1], ev[2])
MqttEvent == \E id \in MqttEvents : mqtt_event_handler_cb(id)

(***************************************************************************)
(* adc_mqtt_task, one action per step of the loop body.                    *)
(***************************************************************************)
\* xEventGroupWaitBits(group, WIFI | MQTT, clearOnExit = false,
\*                     waitForAll = true, portMAX_DELAY)
WaitBits ==
    /\ pc = "wait"
    /\ WaitCondition(wifi_event_group, {WIFI_CONNECTED_BIT, MQTT_CONNECTED_BIT}, TRUE)
    /\ wifi_event_group' =
          WaitExit(wifi_event_group, {WIFI_CONNECTED_BIT, MQTT_CONNECTED_BIT}, FALSE)
    /\ wait_bits' = wifi_event_group
    /\ pc' = "time"
    /\ UNCHANGED <<sentVars, localVars, clockVars, matched, iter_publishes,
                   publish_result, dayVars, fired, last_poll_day, runVars>>

\* The state at the end of an iteration: the locals go out of scope, the
\* task sleeps in vTaskDelay and then waits for the bits again.
EndIteration ==
    /\ pc' = "wait"
    /\ current_hour' = Unset
    /\ current_minute' = Unset
    /\ value' = Unset
    /\ payload' = Unset
    /\ wait_bits' = {}
    /\ matched' = 0
    /\ iter_publishes' = 0
    /\ publish_result' = "none"

\* Variant: the "continue" is missing, so an invalid time falls through to
\* the window check with whatever the uninitialised locals hold.
GetTime_NoContinue ==
    /\ pc = "time"
    /\ IF get_current_time(tm_year)
       THEN /\ current_hour' = TimePoints[clock_tod][1]
            /\ current_minute' = TimePoints[clock_tod][2]
       ELSE \E t \in 1..Len(TimePoints) :
               /\ current_hour' = TimePoints[t][1]
               /\ current_minute' = TimePoints[t][2]
    /\ pc' = "check"
    /\ UNCHANGED <<wifi_event_group, sentVars, value, payload, iterVars, clockVars,
                   dayVars, fired, last_poll_day, runVars>>

\* if (!get_current_time(&h, &m)) { vTaskDelay(5000); continue; }
GetTime ==
    /\ pc = "time"
    /\ IF get_current_time(tm_year)
       THEN /\ current_hour' = TimePoints[clock_tod][1]
            /\ current_minute' = TimePoints[clock_tod][2]
            /\ pc' = "check"
            /\ UNCHANGED <<value, payload, iterVars>>
       ELSE EndIteration
    /\ UNCHANGED <<wifi_event_group, sentVars, clockVars, dayVars, fired,
                   last_poll_day, runVars>>

\* Variant: the reset forgets the third flag.
MidnightReset_Partial(hour, minute, flags) ==
    IF hour = 0 /\ minute = 0 THEN <<FALSE, FALSE, flags[3]>> ELSE flags

\* The midnight reset: the flags after "if (hour == 0 && minute == 0) {...}".
MidnightReset(hour, minute, flags) ==
    IF hour = 0 /\ minute = 0 THEN <<FALSE, FALSE, FALSE>> ELSE flags

\* Whether the reset branch is taken at (hour, minute).
ResetTaken(hour, minute) ==
    MidnightReset(hour, minute, <<TRUE, TRUE, TRUE>>) = <<FALSE, FALSE, FALSE>>

\* Variant: the condition does not look at the sent flags.
WindowDue_IgnoresSent(hour, minute, flags) ==
    IF hour = 5 /\ minute = 0 THEN 1
    ELSE IF hour = 10 /\ minute = 0 THEN 2
    ELSE IF hour = 14 /\ minute = 0 THEN 3
    ELSE 0

\* Variant: a window whose minute has passed is caught up on.
WindowDue_CatchUp(hour, minute, flags) ==
    IF hour >= 5 /\ ~flags[1] THEN 1
    ELSE IF hour >= 10 /\ ~flags[2] THEN 2
    ELSE IF hour >= 14 /\ ~flags[3] THEN 3
    ELSE 0

\* Variant: the condition does not look at the minute.
WindowDue_AnyMinute(hour, minute, flags) ==
    IF hour = 5 /\ ~flags[1] THEN 1
    ELSE IF hour = 10 /\ ~flags[2] THEN 2
    ELSE IF hour = 14 /\ ~flags[3] THEN 3
    ELSE 0

\* The disjunct of the window condition that holds (0: the condition is false).
WindowDue(hour, minute, flags) ==
    IF hour = 5 /\ minute = 0 /\ ~flags[1] THEN 1
    ELSE IF hour = 10 /\ minute = 0 /\ ~flags[2] THEN 2
    ELSE IF hour = 14 /\ minute = 0 /\ ~flags[3] THEN 3
    ELSE 0

\* The window whose minute is (hour, minute), 0 if none.
WindowAt(hour, minute) ==
    IF minute = 0 /\ \E w \in Windows : WindowHour[w] = hour
    THEN CHOOSE w \in Windows : WindowHour[w] = hour
    ELSE 0

\* Midnight reset, then the window condition; when no window is due the
\* iteration ends with vTaskDelay(1000).
\* Variant: the window is marked as sent when the condition matches, before
\* the sample is read.
CheckWindows_MarksEarly ==
    /\ pc = "check"
    /\ LET flags == MidnightReset(current_hour, current_minute,
                                  <<sent_morning, sent_afternoon, sent_evening>>)
           due == WindowDue(current_hour, current_minute, flags)
           at == WindowAt(current_hour, current_minute)
       IN  /\ sent_morning' = (flags[1] \/ due = 1)
           /\ sent_afternoon' = (flags[2] \/ due = 2)
           /\ sent_evening' = (flags[3] \/ due = 3)
           /\ fired' = IF ResetTaken(current_hour, current_minute) THEN None ELSE fired
           /\ due_polled' = IF steady /\ at # 0 /\ ~Sent(at)
                            THEN [due_polled EXCEPT ![at] = TRUE] ELSE due_polled
           /\ last_poll_day' = IF steady THEN clock_day ELSE last_poll_day
           /\ IF due # 0
              THEN /\ pc' = "fire"
                   /\ matched' = due
                   /\ UNCHANGED <<localVars, wait_bits, iter_publishes, publish_result>>
              ELSE EndIteration
    /\ UNCHANGED <<wifi_event_group, clockVars, today, runVars>>

CheckWindows ==
    /\ pc = "check"
    /\ LET flags == MidnightReset(current_hour, current_minute,
                                  <<sent_morning, sent_afternoon, sent_evening>>)
           due == WindowDue(current_hour, current_minute, flags)
           at == WindowAt(current_hour, current_minute)
       IN  /\ sent_morning' = flags[1]
           /\ sent_afternoon' = flags[2]
           /\ sent_evening' = flags[3]
           /\ fired' = IF ResetTaken(current_hour, current_minute) THEN None ELSE fired
           /\ due_polled' = IF steady /\ at # 0 /\ ~Sent(at)
                            THEN [due_polled EXCEPT ![at] = TRUE] ELSE due_polled
           /\ last_poll_day' = IF steady THEN clock_day ELSE last_poll_day
           /\ IF due # 0
              THEN /\ pc' = "fire"
                   /\ matched' = due
                   /\ UNCHANGED <<localVars, wait_bits, iter_publishes, publish_result>>
              ELSE EndIteration
    /\ UNCHANGED <<wifi_event_group, clockVars, today, runVars>>

\* int value = adc1_get_raw(SENSOR_A1), the sample drawn from `samples`.
ReadAdcFrom(samples) ==
    /\ pc = "fire"
    /\ value' \in samples
    /\ pc' = "calibrate"
    /\ UNCHANGED <<wifi_event_group, current_hour, current_minute, payload, sentVars,
                   clockVars, iterVars, dayVars, fired, last_poll_day, runVars>>

ReadAdc == ReadAdcFrom(RawSamples)

\* The calibration, the clamp and snprintf(payload, ..., "%.2f%%", percent_value).
Convert ==
    /\ pc = "calibrate"
    /\ payload' = Calibrate(value)
    /\ pc' = "publish"
    /\ UNCHANGED <<wifi_event_group, current_hour, current_minute, value, sentVars,
                   clockVars, iterVars, dayVars, fired, last_poll_day, runVars>>

\* esp_mqtt_client_publish; its result is not looked at.
Publish ==
    /\ pc = "publish"
    /\ \E ok \in BOOLEAN : publish_result' = IF ok THEN "ok" ELSE "failed"
    /\ iter_publishes' = Bump(iter_publishes)
    /\ today' = IF steady THEN [today EXCEPT ![matched] = Bump(@)] ELSE today
    /\ fired' = [fired EXCEPT ![matched] = Bump(@)]
    /\ pc' = "flags"
    /\ UNCHANGED <<wifi_event_group, localVars, sentVars, clockVars, wait_bits,
                   matched, due_polled, last_poll_day, runVars>>

\* Variant: the first branch of the chain is missing.
UpdateFlags_NoMorning(hour, flags) ==
    IF hour = 10 THEN <<flags[1], TRUE, flags[3]>>
    ELSE IF hour = 14 THEN <<flags[1], flags[2], TRUE>>
    ELSE flags

\* Variant: the second branch sets the first flag (a copied line).
UpdateFlags_CopiedLine(hour, flags) ==
    IF hour = 5 THEN <<TRUE, flags[2], flags[3]>>
    ELSE IF hour = 10 THEN <<TRUE, flags[2], flags[3]>>
    ELSE IF hour = 14 THEN <<flags[1], flags[2], TRUE>>
    ELSE flags

\* The flags after the if / else-if chain on current_hour.
UpdateFlags(hour, flags) ==
    IF hour = 5 THEN <<TRUE, flags[2], flags[3]>>
    ELSE IF hour = 10 THEN <<flags[1], TRUE, flags[3]>>
    ELSE IF hour = 14 THEN <<flags[1], flags[2], TRUE>>
    ELSE flags

\* Variant: the flag is set only when the publish call succeeded.
SetSent_OnSuccessOnly ==
    /\ pc = "flags"
    /\ LET flags == IF publish_result = "ok"
                    THEN UpdateFlags(current_hour,
                                     <<sent_morning, sent_afternoon, sent_evening>>)
                    ELSE <<sent_morning, sent_afternoon, sent_evening>>
       IN  /\ sent_morning' = flags[1]
           /\ sent_afternoon' = flags[2]
           /\ sent_evening' = flags[3]
    /\ EndIteration
    /\ UNCHANGED <<wifi_event_group, clockVars, dayVars, fired, last_poll_day,
                   runVars>>

\* "Update flags", the end of the if block, and vTaskDelay(1000).
SetSent ==
    /\ pc = "flags"
    /\ LET flags == UpdateFlags(current_hour,
                                <<sent_morning, sent_afternoon, sent_evening>>)
       IN  /\ sent_morning' = flags[1]
           /\ sent_afternoon' = flags[2]
           /\ sent_evening' = flags[3]
    /\ EndIteration
    /\ UNCHANGED <<wifi_event_group, clockVars, dayVars, fired, last_poll_day,
                   runVars>>

adc_mqtt_task ==
    WaitBits \/ GetTime \/ CheckWindows \/ ReadAdc \/ Convert \/ Publish \/ SetSent

(***************************************************************************)
(* Environment: the clock, SNTP, and restarts of the device.  The task     *)
(* reads the clock once per iteration, in GetTime, right after the wait    *)
(* returns, and the steps after it use only the values read.  A clock step *)
(* commutes with every step of the task but GetTime, so the clock steps    *)
(* are taken while the task is between iterations (in vTaskDelay or in the *)
(* wait).                                                                  *)
(***************************************************************************)
ClockMayStep == pc = "wait"

\* Time passes to the next time point.
Tick ==
    /\ ClockMayStep
    /\ IF clock_tod < Len(TimePoints)
       THEN /\ clock_tod' = clock_tod + 1
            /\ UNCHANGED <<clock_day, dayVars>>
       ELSE /\ clock_day < MaxDay
            /\ clock_tod' = 1
            /\ clock_day' = clock_day + 1
            /\ today' = None
            /\ due_polled' = Nowhere
    /\ UNCHANGED <<wifi_event_group, pc, sentVars, localVars, tm_year, iterVars,
                   fired, last_poll_day, runVars>>

\* SNTP (started by initialize_sntp) completes its first synchronisation: the
\* year becomes valid.
SntpSync ==
    /\ ClockMayStep
    /\ ~get_current_time(tm_year)
    /\ tm_year' = MinValidTmYear
    /\ UNCHANGED <<wifi_event_group, pc, sentVars, localVars, clock_day, clock_tod,
                   iterVars, dayVars, fired, last_poll_day, runVars>>

\* The valid clock is set to another time (a correction, a time zone change,
\* a wrong server reply): a jump forwards or backwards, possibly to a year
\* before 2023.
ClockJump ==
    /\ ClockMayStep
    /\ get_current_time(tm_year)
    /\ \E d \in Days, t \in 1..Len(TimePoints), y \in TmYears :
          /\ <<d, t, y>> # <<clock_day, clock_tod, tm_year>>
          /\ clock_day' = d
          /\ clock_tod' = t
          /\ tm_year' = y
    /\ steady' = FALSE
    /\ today' = None
    /\ due_polled' = Nowhere
    /\ last_poll_day' = Unset
    /\ UNCHANGED <<wifi_event_group, pc, sentVars, localVars, iterVars,
                   fired, restarted>>

\* The device restarts: app_main runs again.  The clock survives a software
\* reset and is lost with the power.
\* Variant: the sent flags survive a restart.
Restart_KeepsFlags ==
    /\ wifi_event_group' = {}
    /\ UNCHANGED sentVars
    /\ EndIteration
    /\ tm_year' \in {tm_year, EpochTmYear}
    /\ fired' = None
    /\ last_poll_day' = Unset
    /\ restarted' = TRUE
    /\ UNCHANGED <<clock_day, clock_tod, dayVars, steady>>

Restart ==
    /\ wifi_event_group' = {}
    /\ sent_morning' = FALSE
    /\ sent_afternoon' = FALSE
    /\ sent_evening' = FALSE
    /\ EndIteration
    /\ tm_year' \in {tm_year, EpochTmYear}
    /\ fired' = None
    /\ last_poll_day' = Unset
    /\ restarted' = TRUE
    /\ UNCHANGED <<clock_day, clock_tod, dayVars, steady>>

Next == WifiEvent \/ MqttEvent \/ adc_mqtt_task \/ Tick \/ SntpSync \/ ClockJump \/ Restart

Spec == Init /\ [][Next]_vars

\* The task was created by xTaskCreate and never blocks but in the wait and in
\* vTaskDelay: whenever it is ready to run, the FreeRTOS scheduler runs it.
\* The handlers, the clock and a restart are the environment's and may never
\* happen.
FairSpec == Spec /\ WF_vars(adc_mqtt_task)

(***************************************************************************)
(* The firing part of one iteration, over every sample of AnyRaw: the task *)
(* stands right after the window condition matched the morning window and  *)
(* reads, calibrates, publishes and marks the window.                      *)
(***************************************************************************)
FireInit ==
    /\ wifi_event_group = {WIFI_CONNECTED_BIT, MQTT_CONNECTED_BIT}
    /\ pc = "fire"
    /\ current_hour = WindowHour[1]
    /\ current_minute = 0
    /\ sent_morning = FALSE
    /\ sent_afternoon = FALSE
    /\ sent_evening = FALSE
    /\ value = Unset
    /\ payload = Unset
    /\ wait_bits = {WIFI_CONNECTED_BIT, MQTT_CONNECTED_BIT}
    /\ clock_day = 0
    /\ clock_tod = 3
    /\ tm_year = MinValidTmYear
    /\ matched = 1
    /\ iter_publishes = 0
    /\ publish_result = "none"
    /\ today = None
    /\ due_polled = [Nowhere EXCEPT ![1] = TRUE]
    /\ fired = None
    /\ last_poll_day = 0
    /\ steady = TRUE
    /\ restarted = FALSE

FireNext == ReadAdcFrom(AnyRaw) \/ Convert \/ Publish \/ SetSent

FireSpec == FireInit /\ [][FireNext]_vars

TypeOK ==
    /\ wifi_event_group \subseteq {WIFI_CONNECTED_BIT, MQTT_CONNECTED_BIT}
    /\ pc \in {"wait", "time", "check", "fire", "calibrate", "publish", "flags"}
    /\ sent_morning \in BOOLEAN /\ sent_afternoon \in BOOLEAN /\ sent_evening \in BOOLEAN
    /\ clock_day \in Days /\ clock_tod \in 1..Len(TimePoints) /\ tm_year \in TmYears
    /\ matched \in 0..3
    /\ value \in {Unset} \cup RawSamples
    /\ payload \in {Unset} \cup 0..10000
    /\ wait_bits \subseteq {WIFI_CONNECTED_BIT, MQTT_CONNECTED_BIT}


(***************************************************************************)
(* Properties.                                                             *)
(***************************************************************************)
\* The clock was never set to another time and the process never restarted:
\* the polled times are then non-decreasing.
Orderly == steady /\ ~restarted
BothBits == {WIFI_CONNECTED_BIT, MQTT_CONNECTED_BIT}
AtMidnight == current_hour = 0 /\ current_minute = 0
AllArmedNext == ~sent_morning' /\ ~sent_afternoon' /\ ~sent_evening'

\* C1: with non-decreasing polled times and no restart, each window triggers
\* at most one publish attempt per calendar day.
C1_AtMostOncePerDay == Orderly => \A w \in Windows : today[w] <= 1

\* C1 witness: window 1 has fired today and its minute is polled again.
C1_Witness ==
    /\ Orderly /\ today[1] = 1 /\ sent_morning
    /\ pc = "check" /\ current_hour = 5 /\ current_minute = 0

\* C2 (as claimed): when the calendar day of a valid poll differs from the
\* day of the previous valid poll, all sent flags are false after the reset
\* step of that iteration.  Stated for runs in which the clock is never set
\* and the process never restarts.
C2_RolloverRearms ==
    [][(Orderly /\ pc = "check" /\ pc' # "check"
          /\ last_poll_day # Unset /\ last_poll_day # clock_day)
       => AllArmedNext]_vars

\* C3 (as claimed): on every calendar day the process runs through, each
\* window has exactly one publish attempt when the day ends.
C3_ExactlyOncePerDay ==
    [][(Orderly /\ Orderly' /\ clock_day >= 1 /\ clock_day' = clock_day + 1)
       => \A w \in Windows : today[w] = 1]_vars

\* C3 (amended): with non-decreasing polled times and no restart, between
\* iterations the number of publish attempts of a window on the current day
\* is one if its minute was polled on that day while its flag was false, and
\* zero otherwise.
C3_OncePerDuePoll ==
    (Orderly /\ pc \in {"wait", "time"})
    => \A w \in Windows : today[w] = (IF due_polled[w] THEN 1 ELSE 0)

\* C3 witness: on a day the process ran through from its start, window 1 fired
\* and the minute of window 2 passed without an attempt.
C3_Witness ==
    /\ Orderly /\ clock_day = 1 /\ pc = "wait"
    /\ today = <<1, 0, 0>> /\ TimePoints[clock_tod] = <<14, 0>>

\* C4: an iteration that polls the minute of a window whose flag is false
\* goes on to sample, calibrate and publish, publishes once, and then sets the
\* flag of that window and of no other; no iteration publishes more than once.
C4_FireSetsOnlyItsFlag ==
    [][ /\ (pc = "check" /\ pc' # "check" /\ ~Restart
              /\ WindowAt(current_hour, current_minute) # 0
              /\ ~Sent(WindowAt(current_hour, current_minute)))
           => (pc' = "fire" /\ matched' = WindowAt(current_hour, current_minute)
                 /\ UNCHANGED sentVars)
        /\ (pc = "fire" /\ pc' # "fire" /\ ~Restart)
           => (pc' = "calibrate" /\ UNCHANGED sentVars)
        /\ (pc = "calibrate" /\ pc' # "calibrate" /\ ~Restart)
           => (pc' = "publish" /\ UNCHANGED sentVars)
        /\ (pc = "publish" /\ pc' # "publish" /\ ~Restart)
           => (pc' = "flags" /\ iter_publishes' = 1 /\ UNCHANGED sentVars)
        /\ (pc = "flags" /\ pc' # "flags" /\ ~Restart)
           => (pc' = "wait" /\ sent_morning' = (sent_morning \/ matched = 1)
                 /\ sent_afternoon' = (sent_afternoon \/ matched = 2)
                 /\ sent_evening' = (sent_evening \/ matched = 3))
        /\ iter_publishes' <= 1 ]_vars

\* C4 witness: window 2 is due with only the flag of window 1 set, and the
\* iteration has made its publish attempt.
C4_Witness ==
    /\ pc = "flags" /\ matched = 2 /\ iter_publishes = 1
    /\ sent_morning /\ ~sent_afternoon /\ ~sent_evening

\* C5: whatever the clock does, a window has at most one publish attempt
\* between two resets, and outside the step between the publish call and the
\* flag update its flag is true exactly when it has fired since the last
\* reset or start.
C5_SentIffFired ==
    \A w \in Windows :
        /\ fired[w] <= 1
        /\ pc # "flags" => (Sent(w) <=> fired[w] = 1)

\* C5 witness: after the clock was set, the minute of window 1 is polled with
\* its flag already set.
C5_Witness ==
    /\ ~steady /\ sent_morning /\ fired[1] = 1
    /\ pc = "check" /\ current_hour = 5 /\ current_minute = 0

\* C6: a valid poll of 00:00 reaches the reset; the reset step clears all
\* three flags and ends the iteration without a publish attempt.
C6_MidnightClears ==
    [][ /\ (pc = "time" /\ pc' # "time" /\ ~Restart
              /\ get_current_time(tm_year) /\ TimePoints[clock_tod] = <<0, 0>>)
           => (pc' = "check" /\ current_hour' = 0 /\ current_minute' = 0)
        /\ (pc = "check" /\ pc' # "check" /\ AtMidnight)
           => (AllArmedNext /\ pc' = "wait" /\ iter_publishes = 0
                 /\ iter_publishes' = 0) ]_vars

\* C6 witness: 00:00 is polled with all three flags set.
C6_Witness ==
    /\ pc = "check" /\ AtMidnight
    /\ sent_morning /\ sent_afternoon /\ sent_evening

\* C7: after a failed publish call the iteration still sets the flag of the
\* window that fired and ends, having published once.
C7_FailureStillMarksSent ==
    [][(pc = "flags" /\ publish_result = "failed" /\ pc' # "flags" /\ ~Restart)
       => (pc' = "wait" /\ iter_publishes = 1 /\ matched # 0
             /\ (matched = 1 => sent_morning')
             /\ (matched = 2 => sent_afternoon')
             /\ (matched = 3 => sent_evening'))]_vars

\* C7 witness: the publish call for window 3 has failed.
C7_Witness == pc = "flags" /\ publish_result = "failed" /\ matched = 3

\* C8: the task leaves the wait only in a state with both bits set, can leave
\* it whenever both are set, and a change of the bits after the wait has
\* returned does not move the task.
C8_WaitNeedsBothBits ==
    /\ [][ /\ (pc = "wait" /\ pc' # "wait") => BothBits \subseteq wifi_event_group
           /\ (pc # "wait" /\ wifi_event_group' # wifi_event_group /\ ~Restart)
              => pc' = pc ]_vars
    /\ []((pc = "wait" /\ BothBits \subseteq wifi_event_group) => ENABLED WaitBits)

\* C8 witness: both bits were cleared after the wait returned, and the
\* iteration is about to publish.
C8_Witness == pc = "fire" /\ wifi_event_group = {}

\* C9: the Wi-Fi bit is set only by the got-IP event and cleared only by the
\* station-disconnected event, the MQTT bit is set only by MQTT connected and
\* cleared only by MQTT disconnected (a restart creates a new, empty group),
\* and no step of the task changes the group.
C9_BitsChangeOnlyByOwnEvent ==
    [][ /\ (WIFI_CONNECTED_BIT \in wifi_event_group' \ wifi_event_group)
           => wifi_event_handler("IP_EVENT", "IP_EVENT_STA_GOT_IP")
        /\ (WIFI_CONNECTED_BIT \in wifi_event_group \ wifi_event_group')
           => (wifi_event_handler("WIFI_EVENT", "WIFI_EVENT_STA_DISCONNECTED") \/ Restart)
        /\ (MQTT_CONNECTED_BIT \in wifi_event_group' \ wifi_event_group)
           => mqtt_event_handler_cb("MQTT_EVENT_CONNECTED")
        /\ (MQTT_CONNECTED_BIT \in wifi_event_group \ wifi_event_group')
           => (mqtt_event_handler_cb("MQTT_EVENT_DISCONNECTED") \/ Restart)
        /\ (pc' # pc /\ ~Restart) => UNCHANGED wifi_event_group ]_vars

\* C9 witness: after the wait returned with both bits set, the Wi-Fi bit was
\* cleared and the MQTT bit is still set.
C9_Witness == pc = "time" /\ wifi_event_group = {MQTT_CONNECTED_BIT}

\* C10: an iteration that polls an invalid time goes back to the wait without
\* changing a sent flag or publishing; one that polls a valid time goes on to
\* the reset and the window check.
C10_InvalidTimeRetries ==
    [][ /\ (pc = "time" /\ pc' # "time" /\ ~Restart /\ ~get_current_time(tm_year))
           => (pc' = "wait" /\ UNCHANGED <<sentVars, today, fired>>
                 /\ iter_publishes' = 0)
        /\ (pc = "time" /\ pc' # "time" /\ ~Restart /\ get_current_time(tm_year))
           => pc' = "check" ]_vars

\* C10 witness: an invalid time is about to be polled while a flag is set.
C10_Witness == pc = "time" /\ ~get_current_time(tm_year) /\ sent_afternoon


Ready == BothBits \subseteq wifi_event_group

\* C11: not-ready is recoverable and nothing ends the loop.  When the task is
\* blocked in the wait with both bits set, it goes on to the clock poll unless
\* a bit is cleared first (so if the bits stay set it reaches the poll); and at
\* every position other than the wait the task has a next step to take.
C11_NotReadyRecovers ==
    /\ [](pc # "wait" => ENABLED adc_mqtt_task)
    /\ (pc = "wait" /\ Ready) ~> (pc = "time" \/ ~Ready)

C11_Witness == pc = "time" /\ wait_bits = BothBits /\ Ready /\ restarted

\* C12: for every integer raw sample, in the device range or outside it, the
\* percentage that is formatted and published lies within [0, 100] (payload
\* counts hundredths of a percent), and a publish call always has one.
C12_PercentInRange ==
    /\ payload # Unset => (0 <= payload /\ payload <= 100 * 100)
    /\ pc \in {"publish", "flags"} => payload # Unset

C12_Witness == pc = "flags" /\ value > AdcMax + 1 /\ value < FarRaw /\ payload = 0

Abs(n) == IF n < 0 THEN -n ELSE n

\* C13: the value formatted for a raw sample is clamp(100 - (raw - 2300) * 100
\* / 1795, 0, 100) to the nearest hundredth: 100 for every raw <= 2300, 0 for
\* every raw >= 4095, strictly between the two otherwise and then within half
\* a hundredth of the exact quotient; it does not increase with raw, and it
\* depends on the raw sample alone.
C13_CalibratedValue ==
    pc \in {"publish", "flags"} =>
        /\ value <= 2300 => payload = 100 * 100
        /\ value >= 2300 + 1795 => payload = 0
        /\ (2300 < value /\ value < 2300 + 1795) =>
              /\ 0 < payload /\ payload < 100 * 100
              /\ 2 * Abs(1795 * payload - 100 * (100 * 1795 - 100 * (value - 2300))) <= 1795
        /\ Calibrate(value - 1) >= payload
        /\ payload = Calibrate(value)

C13_Witness == pc = "flags" /\ value = 3198 /\ payload = 4997

\* C14: set and clear are idempotent at every point of the loop.  In every
\* reachable state, setting a bit that is set or clearing a bit that is clear
\* gives the group back, and setting or clearing twice is the same as once;
\* and a handler invocation that sets a set bit or clears a clear bit leaves
\* the group as it was, wherever the task stands.
C14_SetClearIdempotent ==
    /\ [](\A b \in BothBits :
            /\ b \in wifi_event_group
               => xEventGroupSetBits(wifi_event_group, {b}) = wifi_event_group
            /\ b \notin wifi_event_group
               => xEventGroupClearBits(wifi_event_group, {b}) = wifi_event_group
            /\ xEventGroupSetBits(xEventGroupSetBits(wifi_event_group, {b}), {b})
               = xEventGroupSetBits(wifi_event_group, {b})
            /\ xEventGroupClearBits(xEventGroupClearBits(wifi_event_group, {b}), {b})
               = xEventGroupClearBits(wifi_event_group, {b}))
    /\ [][
          /\ ( /\ wifi_event_handler("IP_EVENT", "IP_EVENT_STA_GOT_IP")
                /\ WIFI_CONNECTED_BIT \in wifi_event_group )
             => UNCHANGED wifi_event_group
          /\ ( /\ wifi_event_handler("WIFI_EVENT", "WIFI_EVENT_STA_DISCONNECTED")
                /\ WIFI_CONNECTED_BIT \notin wifi_event_group )
             => UNCHANGED wifi_event_group
          /\ ( /\ mqtt_event_handler_cb("MQTT_EVENT_CONNECTED")
                /\ MQTT_CONNECTED_BIT \in wifi_event_group )
             => UNCHANGED wifi_event_group
          /\ ( /\ mqtt_event_handler_cb("MQTT_EVENT_DISCONNECTED")
                /\ MQTT_CONNECTED_BIT \notin wifi_event_group )
             => UNCHANGED wifi_event_group ]_vars

\* C14 witness: in the middle of a firing iteration the MQTT bit is set (a
\* further MQTT connected event sets a set bit) and the Wi-Fi bit is clear (a
\* further station disconnect clears a clear bit).
C14_Witness == pc = "calibrate" /\ wifi_event_group = {MQTT_CONNECTED_BIT}

\* C15 as stated: at the instant of every publish call both bits are set.
\* It does not hold: the handlers run in other tasks, and a disconnect event
\* between the return of the wait and the publish call clears a bit that the
\* iteration does not look at again.
C15_BothBitsAtPublish ==
    [][ (pc = "publish" /\ pc' = "flags") => Ready ]_vars

\* C15, amended: every publish call is made in an iteration whose wait
\* returned with both bits set; the bits themselves may have been cleared by
\* the time of the call.
C15_BothBitsAtWaitReturn ==
    [][ (pc = "publish" /\ pc' = "flags") => wait_bits = BothBits ]_vars

\* C15 witness: a publish call was made, the Wi-Fi bit is still set, the MQTT
\* bit is not.
C15_Witness ==
    /\ pc = "flags" /\ iter_publishes = 1 /\ wait_bits = BothBits
    /\ wifi_event_group = {WIFI_CONNECTED_BIT}

\* The polled time of the current iteration is the minute of window w.
PolledAt(w) == current_hour = WindowHour[w] /\ current_minute = 0

StartState ==
    /\ pc = "wait"
    /\ wifi_event_group = {}
    /\ ~sent_morning /\ ~sent_afternoon /\ ~sent_evening
    /\ current_hour = Unset /\ current_minute = Unset
    /\ value = Unset /\ payload = Unset

\* C17: the first start and every restart, from whatever state, leave all
\* three sent flags false and both bits clear, with the task at the wait of
\* its first iteration; a restart is possible in every state.  (That a window
\* which fired can then fire again on the same day is the witness.)
C17_RestartRearms ==
    /\ StartState
    /\ [](ENABLED Restart)
    /\ [][(Restart \/ restarted' # restarted) => StartState']_vars

\* C17 witness: with the clock never set to another time, a restart after the
\* morning window fired was followed by a poll in the same minute, and the
\* window has just made its second publish attempt of the day.
C17_Witness ==
    /\ steady /\ restarted /\ pc = "flags" /\ matched = 1 /\ today[1] = 2

\* C18: a firing iteration reads one sample, then calibrates it, then
\* publishes, then sets the sent flag of its window, in that order and each
\* once: before the read there is no sample and no payload, the payload
\* exists only after the read and is the calibration of the sample that was
\* read, the publish call comes after the payload and before the flag, and
\* the flag is set by the step that follows the one publish call.  The sent
\* flags change only by steps of the task (the midnight reset, the flag
\* update) or by a restart, never by a handler.
C18_FireInOrder ==
    /\ []( /\ pc \in {"wait", "time", "check", "fire"}
               => (value = Unset /\ payload = Unset /\ iter_publishes = 0)
           /\ pc \in {"fire", "calibrate", "publish", "flags"}
               => (matched \in Windows /\ PolledAt(matched) /\ ~Sent(matched))
           /\ pc = "calibrate"
               => (value \in RawSamples /\ payload = Unset /\ iter_publishes = 0)
           /\ pc = "publish"
               => (payload = Calibrate(value) /\ iter_publishes = 0)
           /\ pc = "flags"
               => (payload = Calibrate(value) /\ iter_publishes = 1) )
    /\ [][
          /\ (pc' # pc /\ ~Restart /\ pc \in {"fire", "calibrate", "publish", "flags"})
             => <<pc, pc'>> \in { <<"fire", "calibrate">>, <<"calibrate", "publish">>,
                                  <<"publish", "flags">>, <<"flags", "wait">> }
          /\ \A w \in Windows :
                (~Sent(w) /\ Sent(w)')
                => (pc = "flags" /\ pc' = "wait" /\ matched = w /\ iter_publishes = 1)
          /\ (sentVars' # sentVars)
             => ((pc \in {"check", "flags"} /\ adc_mqtt_task) \/ Restart)
          /\ (WifiEvent \/ MqttEvent) => UNCHANGED sentVars ]_vars

\* C18 witness: the flag of the evening window was set by the iteration that
\* published for it, and the task is back at the wait.
C18_Witness ==
    /\ pc = "wait" /\ sent_evening /\ fired[3] = 1 /\ ~sent_morning /\ ~restarted
====
